---- MODULE Spec2Model ----
(***************************************************************************)
(* FX30 Grain Match: the grain-pattern synthesis core of                   *)
(* fx30-grain-match-plugin.py (GRAIN_PARAMETERS and FX30GrainPattern).     *)
(*                                                                         *)
(* Real numbers are kept exactly, in fixed point: the six table values     *)
(* are in hundredths (0.08 is 8), the channel weights 1.2 / 0.8 / 1.4 in   *)
(* tenths (12 / 8 / 14) and "1 - luma_influence" is 100 - luma_influence.  *)
(* A standard-normal sample is an integer Sample(key, pos) that depends    *)
(* only on the key the generator was seeded with and on how many samples   *)
(* were drawn since: what a seeded Mersenne Twister stream guarantees.     *)
(***************************************************************************)
EXTENDS Integers, Sequences, FiniteSets, TLC

\* Bounds of the model.
MaxDim == 2
MaxSeed == 2

\* The channel weights of lines 115-117, in tenths.
RedWeight == 12
GreenWeight == 8
BlueWeight == 14
\* The 1 of "1 - luma_influence" (lines 121-123), in hundredths.
One == 100

VARIABLES np_random, inst, call

vars == <<np_random, inst, call>>

\* The two FX30GrainPattern objects (one per caller) the model follows.
Slots == {"a", "b"}

(***************************************************************************)
(* The ISO table.                                                          *)
(***************************************************************************)
\* The 13 preset identifiers, in the order of ISO_PRESETS.
ISO_PRESETS ==
    <<"80", "100", "200", "400", "800", "1600", "3200", "6400", "12800",
      "25600", "32000", "64000", "102400">>

\* The number each identifier spells.
IsoNumber ==
    ("80" :> 80) @@ ("100" :> 100) @@ ("200" :> 200) @@ ("400" :> 400) @@
    ("800" :> 800) @@ ("1600" :> 1600) @@ ("3200" :> 3200) @@
    ("6400" :> 6400) @@ ("12800" :> 12800) @@ ("25600" :> 25600) @@
    ("32000" :> 32000) @@ ("64000" :> 64000) @@ ("102400" :> 102400)

\* GRAIN_PARAMETERS with "400" and "800" exchanged.
GRAIN_PARAMETERS_swapped ==
    ("80" :> <<8, 32, 60, 3, 95, 2>>) @@
    ("100" :> <<10, 35, 62, 4, 94, 3>>) @@
    ("200" :> <<15, 40, 65, 5, 92, 4>>) @@
    ("400" :> <<35, 52, 72, 9, 87, 8>>) @@
    ("800" :> <<22, 45, 68, 7, 90, 6>>) @@
    ("1600" :> <<48, 58, 76, 12, 83, 11>>) @@
    ("3200" :> <<65, 64, 80, 16, 78, 15>>) @@
    ("6400" :> <<85, 70, 84, 21, 72, 20>>) @@
    ("12800" :> <<115, 78, 88, 28, 65, 26>>) @@
    ("25600" :> <<140, 84, 92, 36, 58, 32>>) @@
    ("32000" :> <<165, 88, 94, 42, 52, 38>>) @@
    ("64000" :> <<195, 92, 96, 48, 45, 46>>) @@
    ("102400" :> <<230, 96, 98, 55, 38, 52>>)

\* (intensity, size, roughness, color_influence, luma_influence, chroma_bias)
GRAIN_PARAMETERS ==
    ("80" :> <<8, 32, 60, 3, 95, 2>>) @@
    ("100" :> <<10, 35, 62, 4, 94, 3>>) @@
    ("200" :> <<15, 40, 65, 5, 92, 4>>) @@
    ("400" :> <<22, 45, 68, 7, 90, 6>>) @@
    ("800" :> <<35, 52, 72, 9, 87, 8>>) @@
    ("1600" :> <<48, 58, 76, 12, 83, 11>>) @@
    ("3200" :> <<65, 64, 80, 16, 78, 15>>) @@
    ("6400" :> <<85, 70, 84, 21, 72, 20>>) @@
    ("12800" :> <<115, 78, 88, 28, 65, 26>>) @@
    ("25600" :> <<140, 84, 92, 36, 58, 32>>) @@
    ("32000" :> <<165, 88, 94, 42, 52, 38>>) @@
    ("64000" :> <<195, 92, 96, 48, 45, 46>>) @@
    ("102400" :> <<230, 96, 98, 55, 38, 52>>)

\* dict.get with the first key as the default.
GetParameters_first(iso) ==
    IF iso \in DOMAIN GRAIN_PARAMETERS
        THEN GRAIN_PARAMETERS[iso]
        ELSE GRAIN_PARAMETERS["80"]

\* GRAIN_PARAMETERS.get(iso, GRAIN_PARAMETERS["800"])
GetParameters(iso) ==
    IF iso \in DOMAIN GRAIN_PARAMETERS
        THEN GRAIN_PARAMETERS[iso]
        ELSE GRAIN_PARAMETERS["800"]

(***************************************************************************)
(* Inputs.                                                                 *)
(***************************************************************************)
KnownIsos == {ISO_PRESETS[i] : i \in DOMAIN ISO_PRESETS}

\* Every preset and one identifier that is no key of the table.
AllIsos == KnownIsos \cup {"not-a-real-iso"}

\* The identifiers the generation runs use.
GenIsos == {"80", "3200", "not-a-real-iso"}

\* A Python int seed, hi * 2**32 + val: the model's integers are 32 bits wide
\* and a Python int is not, so what lies above 2**32 is counted in hi.
IntSeed(hi, v) == [kind |-> "int", hi |-> hi, val |-> v]

\* A Python float seed: the node's seed property is a FloatProperty.
FloatSeed(v) == [kind |-> "float", hi |-> 0, val |-> v]

\* A seed that is no number at all (a str).
StrSeed == [kind |-> "str", hi |-> 0, val |-> 0]

\* -1, 1 .. MaxSeed, 2**32, the float 1.0 (the node's default) and a str.
Seeds ==
    {IntSeed(0, v) : v \in (1 .. MaxSeed) \cup {-1}}
        \cup {IntSeed(1, 0), FloatSeed(1), StrSeed}

Dims == (-1) .. MaxDim

(***************************************************************************)
(* The process-wide generator numpy keeps behind np.random.                *)
(***************************************************************************)
\* After import the generator is seeded from OS entropy: some state that no
\* call of np.random.seed chose.
OsEntropyKeys == {-1, -2}

Sample(key, pos) == ((key * 5 + pos * 3 + 2) % 7) - 3

\* np.random.seed takes an integer in 0 .. 2**32 - 1 and raises otherwise.
SeedAccepted(seed) ==
    seed.kind = "int" /\ seed.hi = 0 /\ seed.val >= 0

\* ValueError for an integer out of range, TypeError for a float or a str.
SeedError(seed) == IF seed.kind = "int" THEN "ValueError" ELSE "TypeError"

\* A seeding that keeps the stream where it was.
np_random_seed_noop(gen, seed) == gen

\* np.random.seed(seed), seed accepted: the stream starts again from seed.
np_random_seed(gen, seed) == [key |-> seed.val, pos |-> 0]

\* np.random.normal raises ValueError on a negative dimension.
NegativeDimensions(height, width) == height < 0 \/ width < 0

\* The samples of np.random.normal(0, 1, (height, width)), row by row.
np_random_normal(gen, height, width) ==
    [i \in 1 .. height |->
        [j \in 1 .. width |-> Sample(gen.key, gen.pos + (i - 1) * width + (j - 1))]]

\* A draw that leaves the stream where it was.
Consume_stuck(gen, height, width) == gen

\* The generator after a draw of height * width samples.
Consume(gen, height, width) == [gen EXCEPT !.pos = @ + height * width]

\* array * scalar
Times(field, k) ==
    [i \in DOMAIN field |-> [j \in DOMAIN field[i] |-> field[i][j] * k]]

(***************************************************************************)
(* FX30GrainPattern and the frame of one generate_pattern call.            *)
(***************************************************************************)
NoInst == [iso |-> "", seed |-> [kind |-> "none", hi |-> 0, val |-> 0], parameters |-> <<>>]

\* FX30GrainPattern(iso, seed)
FX30GrainPattern(iso, seed) ==
    [iso |-> iso, seed |-> seed, parameters |-> GetParameters(iso)]

NoRet ==
    [status |-> "none", luma |-> <<>>, red |-> <<>>, green |-> <<>>,
     blue |-> <<>>, size |-> 0, roughness |-> 0, chroma_bias |-> 0,
     exc |-> "", at |-> ""]

\* An exception leaving generate_pattern: its type and the call that raised.
Raised(exc, at) == [NoRet EXCEPT !.status = "raise", !.exc = exc, !.at = at]

\* A frame before the call (pc "idle") and as the call enters (pc "seed").
\* draws is the history of what the call did to the generator: a seeding
\* with its key, then each np.random.normal with the key, the position of
\* its first sample, the number of samples and the local they went into.
Frame(pc, width, height) ==
    [pc |-> pc, width |-> width, height |-> height, luma_noise |-> <<>>,
     r_noise |-> <<>>, g_noise |-> <<>>, b_noise |-> <<>>, ret |-> NoRet,
     draws |-> <<>>]

NoCall == Frame("idle", 0, 0)

Drawn(gen, height, width, into) ==
    [op |-> "normal", key |-> gen.key, pos |-> gen.pos, n |-> height * width,
     into |-> into]

\* Line 107: np.random.seed(self.seed)
SeedLine(c, gen, self) ==
    IF SeedAccepted(self.seed)
        THEN LET g == np_random_seed(gen, self.seed) IN
             [call |-> [c EXCEPT !.pc = "luma",
                                 !.draws = Append(@, [op |-> "seed", key |-> g.key,
                                                      pos |-> g.pos, n |-> 0,
                                                      into |-> ""])],
              gen |-> g]
        ELSE [call |-> [c EXCEPT !.pc = "done",
                                 !.ret = Raised(SeedError(self.seed), "seed")],
              gen |-> gen]

\* Line 112: luma_noise = np.random.normal(0, 1, (height, width))
LumaLine(c, gen, self) ==
    IF NegativeDimensions(c.height, c.width)
        THEN [call |-> [c EXCEPT !.pc = "done",
                                 !.ret = Raised("ValueError", "normal")],
              gen |-> gen]
        ELSE [call |-> [c EXCEPT !.pc = "red",
                                 !.luma_noise = np_random_normal(gen, c.height, c.width),
                                 !.draws = Append(@, Drawn(gen, c.height, c.width,
                                                           "luma_noise"))],
              gen |-> Consume(gen, c.height, c.width)]

\* A colour line that multiplies by the weight alone.
ColourNoise_unscaled(gen, height, width, color_influence, weight) ==
    Times(np_random_normal(gen, height, width), weight)

\* np.random.normal(0, 1, (height, width)) * color_influence * weight
ColourNoise(gen, height, width, color_influence, weight) ==
    Times(Times(np_random_normal(gen, height, width), color_influence), weight)

\* Line 115: r_noise = np.random.normal(...) * color_influence * 1.2
RedLine(c, gen, self) ==
    [call |-> [c EXCEPT !.pc = "green",
                        !.r_noise = ColourNoise(gen, c.height, c.width,
                                                self.parameters[4], RedWeight),
                        !.draws = Append(@, Drawn(gen, c.height, c.width, "r_noise"))],
     gen |-> Consume(gen, c.height, c.width)]

\* Line 116: g_noise = np.random.normal(...) * color_influence * 0.8
GreenLine(c, gen, self) ==
    [call |-> [c EXCEPT !.pc = "blue",
                        !.g_noise = ColourNoise(gen, c.height, c.width,
                                                self.parameters[4], GreenWeight),
                        !.draws = Append(@, Drawn(gen, c.height, c.width, "g_noise"))],
     gen |-> Consume(gen, c.height, c.width)]

\* Line 117: b_noise = np.random.normal(...) * color_influence * 1.4
BlueLine(c, gen, self) ==
    [call |-> [c EXCEPT !.pc = "return",
                        !.b_noise = ColourNoise(gen, c.height, c.width,
                                                self.parameters[4], BlueWeight),
                        !.draws = Append(@, Drawn(gen, c.height, c.width, "b_noise"))],
     gen |-> Consume(gen, c.height, c.width)]

\* Lines 119-127: the dict returned.
ReturnLine(c, gen, self) ==
    LET intensity == self.parameters[1]
        luma_influence == self.parameters[5]
    IN  [call |-> [c EXCEPT !.pc = "done",
                            !.ret = [NoRet EXCEPT
                                !.status = "ok",
                                !.luma = Times(Times(c.luma_noise, intensity), luma_influence),
                                !.red = Times(Times(c.r_noise, intensity), One - luma_influence),
                                !.green = Times(Times(c.g_noise, intensity), One - luma_influence),
                                !.blue = Times(Times(c.b_noise, intensity), One - luma_influence),
                                !.size = self.parameters[2],
                                !.roughness = self.parameters[3],
                                !.chroma_bias = self.parameters[6]]],
         gen |-> gen]

\* The statement at the frame's pc.
Line(c, gen, self) ==
    CASE c.pc = "seed" -> SeedLine(c, gen, self)
      [] c.pc = "luma" -> LumaLine(c, gen, self)
      [] c.pc = "red" -> RedLine(c, gen, self)
      [] c.pc = "green" -> GreenLine(c, gen, self)
      [] c.pc = "blue" -> BlueLine(c, gen, self)
      [] c.pc = "return" -> ReturnLine(c, gen, self)

\* The call run from its pc to its end with nothing in between.
RECURSIVE RunToEnd(_, _)
RunToEnd(r, self) ==
    IF r.call.pc = "done" THEN r ELSE RunToEnd(Line(r.call, r.gen, self), self)

\* self.generate_pattern(width, height), run alone from generator state gen.
generate_pattern(self, gen, width, height) ==
    RunToEnd([call |-> Frame("seed", width, height), gen |-> gen], self)

(***************************************************************************)
(* Actions.                                                                *)
(***************************************************************************)
Running(t) == call[t].pc \notin {"idle", "done"}

Init ==
    /\ np_random \in {[key |-> k, pos |-> 0] : k \in OsEntropyKeys}
    /\ inst = [t \in Slots |-> NoInst]
    /\ call = [t \in Slots |-> NoCall]

\* t's caller builds a pattern object (and drops the one it had).
Construct(t, iso, seed) ==
    /\ ~Running(t)
    /\ inst' = [inst EXCEPT ![t] = FX30GrainPattern(iso, seed)]
    /\ call' = [call EXCEPT ![t] = NoCall]
    /\ UNCHANGED np_random

\* A whole generate_pattern call, no other caller running meanwhile.
GeneratePattern(t, width, height) ==
    /\ inst[t] # NoInst
    /\ \A u \in Slots : ~Running(u)
    /\ \E r \in {generate_pattern(inst[t], np_random, width, height)} :
        /\ call' = [call EXCEPT ![t] = r.call]
        /\ np_random' = r.gen
    /\ UNCHANGED inst

\* t's thread enters generate_pattern(width, height).
Enter(t, width, height) ==
    /\ inst[t] # NoInst
    /\ call[t].pc = "idle"
    /\ call' = [call EXCEPT ![t] = Frame("seed", width, height)]
    /\ UNCHANGED <<np_random, inst>>

\* t's thread runs the statement at pc.
Statement(t, pc) ==
    /\ call[t].pc = pc
    /\ \E r \in {Line(call[t], np_random, inst[t])} :
        /\ call' = [call EXCEPT ![t] = r.call]
        /\ np_random' = r.gen
    /\ UNCHANGED inst

Seed(t) == Statement(t, "seed")
DrawLuma(t) == Statement(t, "luma")
DrawRed(t) == Statement(t, "red")
DrawGreen(t) == Statement(t, "green")
DrawBlue(t) == Statement(t, "blue")
Return(t) == Statement(t, "return")

\* Objects built for every identifier; no generation.
TableNext == \E t \in Slots, iso \in AllIsos, seed \in Seeds : Construct(t, iso, seed)

TableSpec == Init /\ [][TableNext]_vars

\* One caller: objects of every identifier and seed, calls of every size,
\* one call after the other.
OneConstruct == \E iso \in AllIsos, seed \in Seeds : Construct("a", iso, seed)

OneGenerate == \E w \in Dims, h \in Dims : GeneratePattern("a", w, h)

OneNext == OneConstruct \/ OneGenerate

OneSpec == Init /\ [][OneNext]_vars

\* Two callers whose calls follow one another in any order: seeds numpy
\* accepts, every size from 0 to MaxDim and one size numpy refuses.
SeqSeeds == {IntSeed(0, v) : v \in 1 .. MaxSeed}

SeqIsos == {"80", "3200"}

SeqDims == ((0 .. MaxDim) \X (0 .. MaxDim)) \cup {<<-1, 1>>}

SeqConstruct == \E t \in Slots, iso \in SeqIsos, seed \in SeqSeeds : Construct(t, iso, seed)

SeqGenerate == \E t \in Slots, d \in SeqDims : GeneratePattern(t, d[1], d[2])

SeqNext == SeqConstruct \/ SeqGenerate

SeqSpec == Init /\ [][SeqNext]_vars

\* The seeds and sizes of the threaded runs.
ThreadSeeds == {IntSeed(0, v) : v \in 1 .. MaxSeed}

ThreadDims == 0 .. 1

\* Two threads, each building one object and calling generate_pattern on it
\* once, their statements interleaved.
ThreadConstruct ==
    \E t \in Slots, iso \in GenIsos, seed \in ThreadSeeds :
        inst[t] = NoInst /\ Construct(t, iso, seed)

ThreadEnter == \E t \in Slots, w \in ThreadDims, h \in ThreadDims : Enter(t, w, h)

Next ==
    \/ ThreadConstruct
    \/ ThreadEnter
    \/ \E t \in Slots : Seed(t)
    \/ \E t \in Slots : DrawLuma(t)
    \/ \E t \in Slots : DrawRed(t)
    \/ \E t \in Slots : DrawGreen(t)
    \/ \E t \in Slots : DrawBlue(t)
    \/ \E t \in Slots : Return(t)

Spec == Init /\ [][Next]_vars

(***************************************************************************)
(* Properties.                                                             *)
(***************************************************************************)
Done(t) == call[t].pc = "done"

Returned(t) == Done(t) /\ call[t].ret.status = "ok"

\* int and float seeds are numbers; a str is not.
Numeric(seed) == seed.kind \in {"int", "float"}

\* What the object's call returns (or raises) when nothing else touches the
\* generator from the call's first statement to its last.
Alone(self, width, height) ==
    generate_pattern(self, [key |-> 0, pos |-> 0], width, height).call.ret

\* C1: when the statements of two calls on objects with different
\* (iso, seed) interleave, each call still returns what it returns alone.
C1_InterleavedCallsIndependent ==
    (/\ inst["a"] # NoInst
     /\ inst["b"] # NoInst
     /\ <<inst["a"].iso, inst["a"].seed>> # <<inst["b"].iso, inst["b"].seed>>)
        => \A t \in Slots :
              Done(t) => call[t].ret = Alone(inst[t], call[t].width, call[t].height)

SameArguments(t, u) ==
    /\ inst[t].iso = inst[u].iso
    /\ inst[t].seed = inst[u].seed
    /\ call[t].width = call[u].width
    /\ call[t].height = call[u].height

\* C2: two finished calls with the same (iso, seed, width, height) have the
\* same result, whatever was called before or between them.
C2_SameArgumentsSameFields ==
    \A t, u \in Slots :
        (Done(t) /\ Done(u) /\ SameArguments(t, u)) => call[t].ret = call[u].ret

\* Both callers hold a returned, non-empty field of the same arguments.
C2_Witness ==
    /\ Returned("a") /\ Returned("b")
    /\ SameArguments("a", "b")
    /\ call["a"].width >= 1 /\ call["a"].height >= 1

\* C3: a generate_pattern call, returning or raising, leaves the
\* process-wide generator as it found it.
C3_GeneratorUntouched ==
    [][(call' # call /\ Done("a")') => np_random' = np_random]_vars

\* C4: the seeding step raises for no numeric seed, only for a seed that is
\* not a number.
C4_NumericSeedsNormalized ==
    \A t \in Slots :
        (Done(t) /\ call[t].ret.status = "raise" /\ call[t].ret.at = "seed")
            => ~Numeric(inst[t].seed)

NoField(ret) ==
    ret.luma = <<>> /\ ret.red = <<>> /\ ret.green = <<>> /\ ret.blue = <<>>

\* C5: with a numeric seed, a call with a negative width or height ends in
\* the dimension error and returns no field; with neither negative and one
\* of them zero the call returns.
C5_NegativeDimensionRejected ==
    \A t \in Slots :
        (Done(t) /\ Numeric(inst[t].seed)) =>
            /\ NegativeDimensions(call[t].height, call[t].width) =>
                  /\ call[t].ret.status = "raise"
                  /\ call[t].ret.at = "normal"
                  /\ NoField(call[t].ret)
            /\ (/\ ~NegativeDimensions(call[t].height, call[t].width)
                /\ (call[t].width = 0 \/ call[t].height = 0)) =>
                  call[t].ret.status = "ok"

\* C6: an object of an identifier outside the 13 keys holds the "800"
\* 6-tuple (0.35, 0.52, 0.72, 0.09, 0.87, 0.08); an object of a key holds
\* that key's entry.
C6_LookupTotal ==
    /\ Cardinality(DOMAIN GRAIN_PARAMETERS) = 13
    /\ \A t \in Slots :
          inst[t] # NoInst =>
              IF inst[t].iso \in KnownIsos
                  THEN inst[t].parameters = GRAIN_PARAMETERS[inst[t].iso]
                  ELSE inst[t].parameters = <<35, 52, 72, 9, 87, 8>>

\* One object of an unknown identifier, one of a key other than "800".
C6_Witness ==
    /\ inst["a"].iso = "not-a-real-iso"
    /\ inst["b"].iso = "102400"

\* C7: of two objects of known identifiers, the one of the higher ISO has
\* intensity, size, roughness, color_influence and chroma_bias at least as
\* large and luma_influence at most as large.
C7_TableMonotone ==
    \A t, u \in Slots :
        (/\ inst[t].iso \in KnownIsos
         /\ inst[u].iso \in KnownIsos
         /\ IsoNumber[inst[t].iso] <= IsoNumber[inst[u].iso]) =>
            /\ \A k \in {1, 2, 3, 4, 6} : inst[t].parameters[k] <= inst[u].parameters[k]
            /\ inst[t].parameters[5] >= inst[u].parameters[5]

\* Objects of two neighbouring presets.
C7_Witness ==
    /\ inst["a"].iso = "400"
    /\ inst["b"].iso = "800"

IsGrid(field, height, width) ==
    /\ DOMAIN field = 1 .. height
    /\ \A i \in 1 .. height : DOMAIN field[i] = 1 .. width

\* C8: with a numeric seed and neither dimension negative the call returns
\* four grids of height rows of width values.
C8_GridShape ==
    \A t \in Slots :
        (/\ Done(t)
         /\ Numeric(inst[t].seed)
         /\ call[t].width >= 0
         /\ call[t].height >= 0) =>
            /\ call[t].ret.status = "ok"
            /\ \A f \in {call[t].ret.luma, call[t].ret.red, call[t].ret.green,
                         call[t].ret.blue} :
                  IsGrid(f, call[t].height, call[t].width)

\* The unscaled sample of cell (i, j) of the call's k-th draw.
Raw(t, k, i, j) ==
    Sample(call[t].draws[k + 1].key,
           call[t].draws[k + 1].pos + (i - 1) * call[t].width + (j - 1))

Cells(t) == (1 .. call[t].height) \X (1 .. call[t].width)

\* C9: every cell of luma is raw * intensity * luma_influence, every cell of
\* a colour grid is raw * (color_influence * weight) * intensity *
\* (1 - luma_influence) with weight 1.2, 0.8, 1.4 for red, green, blue; so a
\* red and a green cell of equal raw samples are in the ratio 1.2 : 0.8.
C9_Scaling ==
    \A t \in Slots :
        Returned(t) =>
            LET p == inst[t].parameters
                ret == call[t].ret
                chroma == p[1] * (One - p[5])
            IN  /\ \A c \in Cells(t) :
                      /\ ret.luma[c[1]][c[2]] = Raw(t, 1, c[1], c[2]) * p[1] * p[5]
                      /\ ret.red[c[1]][c[2]] =
                            Raw(t, 2, c[1], c[2]) * (p[4] * 12) * chroma
                      /\ ret.green[c[1]][c[2]] =
                            Raw(t, 3, c[1], c[2]) * (p[4] * 8) * chroma
                      /\ ret.blue[c[1]][c[2]] =
                            Raw(t, 4, c[1], c[2]) * (p[4] * 14) * chroma
                /\ \A c, d \in Cells(t) :
                      Raw(t, 2, c[1], c[2]) = Raw(t, 3, d[1], d[2]) =>
                          ret.red[c[1]][c[2]] * 8 = ret.green[d[1]][d[2]] * 12

\* A returned field with a non-zero red cell and a green cell of the same
\* raw sample.
C9_Witness ==
    /\ Returned("a")
    /\ \E c, d \in Cells("a") :
          /\ Raw("a", 2, c[1], c[2]) = Raw("a", 3, d[1], d[2])
          /\ call["a"].ret.red[c[1]][c[2]] # 0
          /\ call["a"].ret.luma[c[1]][c[2]] # 0

\* What a call does to the generator when it runs to its return: it seeds
\* with its seed, then draws luma, red, green and blue, height * width
\* samples each, every draw starting where the one before ended.
StreamOrder(seed, n) ==
    <<[op |-> "seed", key |-> seed.val, pos |-> 0, n |-> 0, into |-> ""],
      [op |-> "normal", key |-> seed.val, pos |-> 0, n |-> n, into |-> "luma_noise"],
      [op |-> "normal", key |-> seed.val, pos |-> n, n |-> n, into |-> "r_noise"],
      [op |-> "normal", key |-> seed.val, pos |-> 2 * n, n |-> n, into |-> "g_noise"],
      [op |-> "normal", key |-> seed.val, pos |-> 3 * n, n |-> n, into |-> "b_noise"]>>

====
